---- MODULE Spec2Model ----
(***************************************************************************)
(* Model of src/app.py (BCRA exchange-rate bands dashboard).               *)
(*                                                                         *)
(* Two state machines share this module:                                   *)
(*   SpecBands  - the module-level execution (lines 286-322): the band     *)
(*                projector build_bands_2025 / build_bands_2026, the       *)
(*                concatenation, the normalisation and the left merge;     *)
(*   SpecFetch  - the fetchers: get_a3500 request by request with its      *)
(*                retry loop and its st.cache_data entry, and the calls    *)
(*                of get_rem_last and get_ipc_indec_full.                  *)
(*                                                                         *)
(* Numbers.  A missing value (NaN / NaT) is the empty tuple, a present     *)
(* value v is <<v>>.  Rates are integers in units of 1e-4 (2.0 is 20000,   *)
(* 0.02 is 200).  A band value is kept exactly, as the product the code    *)
(* computes: base * g^p1 * PROD of daily factors, where p2 is the bag of   *)
(* monthly rates whose daily factor has been multiplied in.                *)
(***************************************************************************)
EXTENDS Integers, Sequences, FiniteSets, Bags, TLC

VARIABLES
    \* ---- module-level execution (lines 286-322)
    pc,           \* position in the script
    fx_data,      \* raw rows accumulated by get_a3500 (its `data`)
    ipc_full,     \* return value of get_ipc_indec_full()
    rem_last,     \* return value of get_rem_last()
    fx,           \* fx
    rem,          \* rem
    ipc,          \* ipc
    bands_2025,   \* bands_2025
    m,            \* local m of build_bands_2026
    cal,          \* local cal of build_bands_2026
    bands_2026,   \* bands_2026
    bands,        \* bands
    df,           \* df
    \* ---- fetchers
    fpc,          \* get_a3500: "idle" between calls, "requesting" inside the loop
    attempt,      \* index of the running iteration of `for _ in range(3)`
    offset,       \* params["Offset"]
    data,         \* data: one entry per page extended into it
    reqs,         \* requests of the last started call: offset, attempt, response
    cache,        \* the st.cache_data entry of get_a3500 (NaN: none)
    lastCall,     \* how the last call of get_a3500 ended
    result,       \* what the last call of get_a3500 returned (NaN: nothing)
    calls,        \* number of calls of get_a3500 so far
    other         \* last call of another fetcher: fetcher, source, result

bandVars == <<pc, fx_data, ipc_full, rem_last, fx, rem, ipc, bands_2025, m, cal,
              bands_2026, bands, df>>
fetchVars == <<fpc, attempt, offset, data, reqs, cache, lastCall, result, calls,
               other>>
vars == <<bandVars, fetchVars>>

-----------------------------------------------------------------------------
\* Missing values

NaN == <<>>
Some(v) == <<v>>
IsNa(x) == x = NaN
NotNa(x) == x # NaN

-----------------------------------------------------------------------------
\* Calendar.  A date is the number of days since 2025-01-01, a monthly period
\* the number of months since 2025-01.

IsLeap(y) == (y % 4 = 0 /\ y % 100 # 0) \/ y % 400 = 0

PeriodOf(y, mo) == (y - 2025) * 12 + (mo - 1)

DaysInMonth(p) ==
    LET y == 2025 + (p \div 12)
        mo == (p % 12) + 1
    IN  IF mo = 2 THEN (IF IsLeap(y) THEN 29 ELSE 28)
        ELSE IF mo \in {4, 6, 9, 11} THEN 30 ELSE 31

RECURSIVE MonthStart(_)
MonthStart(p) == IF p = 0 THEN 0 ELSE MonthStart(p - 1) + DaysInMonth(p - 1)

DateOf(y, mo, d) == MonthStart(PeriodOf(y, mo)) + (d - 1)

\* Series.dt.to_period("M")
to_period(d) ==
    CHOOSE p \in (d \div 31)..(d \div 28) : MonthStart(p) <= d /\ d < MonthStart(p + 1)

\* Period.to_timestamp("M"): the last day of the month
to_timestamp_M(p) == MonthStart(p + 1) - 1

\* pd.date_range(start, end, freq="D")
date_range(start, end) == [i \in 1..(end - start + 1) |-> start + (i - 1)]

\* pd.period_range(start, end, freq="M")
period_range(start, end) == [i \in 1..(end - start + 1) |-> start + (i - 1)]

-----------------------------------------------------------------------------
\* Table helpers (pandas)

Max(S) == CHOOSE x \in S : \A y \in S : y <= x

RECURSIVE SetToSortedSeq(_)
SetToSortedSeq(S) ==
    IF S = {} THEN <<>>
    ELSE LET lo == CHOOSE x \in S : \A y \in S : x <= y
         IN  <<lo>> \o SetToSortedSeq(S \ {lo})

\* DataFrame.sort_values("Date")
sort_values_Date(rows) == SortSeq(rows, LAMBDA a, b : a.Date < b.Date)

\* DataFrame.drop_duplicates(subset=["Date"]): the first row of each date is kept
drop_duplicates_Date(rows) ==
    LET tagged == [i \in DOMAIN rows |->
                      [row |-> rows[i],
                       first |-> \A j \in 1..(i - 1) : rows[j].Date # rows[i].Date]]
        kept == SelectSeq(tagged, LAMBDA t : t.first)
    IN  [i \in DOMAIN kept |-> kept[i].row]

-----------------------------------------------------------------------------
\* Reference rate: the tail of get_a3500 (lines 62-79)

\* pd.to_datetime(df["fecha"], errors="coerce"): an ISO date string parses to its
\* date, anything else to NaT
to_datetime(s) ==
    CASE s = "2025-04-13" -> Some(DateOf(2025, 4, 13))
      [] s = "2025-04-14" -> Some(DateOf(2025, 4, 14))
      [] s = "2025-12-31" -> Some(DateOf(2025, 12, 31))
      [] s = "2026-01-02" -> Some(DateOf(2026, 1, 2))
      [] OTHER -> NaN

\* pd.to_numeric(df["valor"], errors="coerce"): a numeral parses to its number,
\* anything else to NaN
to_numeric(s) ==
    CASE s = "1100" -> Some(1100)
      [] s = "1200" -> Some(1200)
      [] OTHER -> NaN

a3500_frame(rows) ==
    LET parsed == [i \in DOMAIN rows |->
                      [Date |-> to_datetime(rows[i].fecha),
                       FX |-> to_numeric(rows[i].valor)]]
        kept == SelectSeq(parsed, LAMBDA r : NotNa(r.Date) /\ NotNa(r.FX))
        typed == [i \in DOMAIN kept |-> [Date |-> kept[i].Date[1], FX |-> kept[i].FX]]
    IN  IF rows = <<>> THEN <<>>
        ELSE sort_values_Date(drop_duplicates_Date(typed))

-----------------------------------------------------------------------------
\* Price index: get_ipc_nacional_nivel_general (lines 148-170)

Div100(x) == x \div 100

\* DataFrame.drop_duplicates("Period")
drop_duplicates_Period(rows) ==
    LET tagged == [i \in DOMAIN rows |->
                      [row |-> rows[i],
                       first |-> \A j \in 1..(i - 1) : rows[j].Period # rows[i].Period]]
        kept == SelectSeq(tagged, LAMBDA t : t.first)
    IN  [i \in DOMAIN kept |-> kept[i].row]

\* DataFrame.sort_values("Period")
sort_values_Period(rows) == SortSeq(rows, LAMBDA a, b : a.Period < b.Period)

get_ipc_nacional_nivel_general(full) ==
    LET tmp == SelectSeq(full, LAMBDA r : r.Codigo = 0 /\ r.Region = "Nacional"
                                          /\ NotNa(r.v_m_IPC))
        byDate == sort_values_Date([i \in DOMAIN tmp |-> [Date |-> tmp[i].Periodo,
                                                          v_m_IPC |-> tmp[i].v_m_IPC]])
        rows == [i \in DOMAIN byDate |->
                    [Date |-> byDate[i].Date,
                     v_m_CPI |-> Some(Div100(byDate[i].v_m_IPC[1])),
                     Period |-> to_period(byDate[i].Date)]]
    IN  sort_values_Period(drop_duplicates_Period(rows))

-----------------------------------------------------------------------------
\* Band values

lower0 == 1000
upper0 == 1400

\* base * g^p1, with g = (1 - 0.01)^(1/30) for dir "dn" and (1 + 0.01)^(1/30)
\* for dir "up" (lines 177-178, 186-187)
Phase1Value(base, dir, t) == Some([base |-> base, dir |-> dir, p1 |-> t, p2 |-> EmptyBag])

\* r_d = (1 + v)^(1/30) - 1 is 0 exactly when v = 0, so the factors 1 - r_d and
\* 1 + r_d are 1 and leave the product unchanged; any other rate adds its
\* daily factor to the product.
DailyFactor(v) == IF v = 0 THEN EmptyBag ELSE SetToBag({v})

\* cumprod with the product taken over the days before i only
cumprod_exclusive(rates) ==
    [i \in DOMAIN rates |->
        IF IsNa(rates[i]) THEN NaN
        ELSE LET vs == {v \in {rates[j][1] : j \in {k \in 1..(i - 1) : NotNa(rates[k])}} :
                           v # 0}
             IN  Some([v \in vs |-> Cardinality({j \in 1..(i - 1) : rates[j] = Some(v)})])]

\* Series.cumprod() over the daily factors of `rates` (skipna): entry i is
\* missing when factor i is missing, and otherwise the product of the factors
\* 1..i that are present, i.e. one daily factor of rate v for every day j <= i
\* whose rate is v
cumprod(rates) ==
    [i \in DOMAIN rates |->
        IF IsNa(rates[i]) THEN NaN
        ELSE LET vs == {v \in {rates[j][1] : j \in {k \in 1..i : NotNa(rates[k])}} :
                           DailyFactor(v) # EmptyBag}
             IN  Some([v \in vs |-> Cardinality({j \in 1..i : rates[j] = Some(v)})])]

\* anchor * product (NaN propagates)
Times(anchor, prod) ==
    IF IsNa(prod) THEN NaN
    ELSE Some([anchor[1] EXCEPT !.p2 = @ (+) prod[1]])

-----------------------------------------------------------------------------
\* build_bands_2025 (lines 176-189)

build_bands_2025(start, end, lo0, up0) ==
    LET dates == date_range(start, end)
    IN  [i \in DOMAIN dates |->
            [Date |-> dates[i],
             lower |-> Phase1Value(lo0, "dn", i - 1),
             upper |-> Phase1Value(up0, "up", i - 1)]]

-----------------------------------------------------------------------------
\* build_bands_2026 (lines 195-221)

\* line 196
rem_m_of(r) == [i \in DOMAIN r |-> [Period |-> to_period(r[i].Date),
                                    v_m_REM |-> r[i].v_m_REM]]

ColumnAt(rows, p, col) ==
    LET hit == {i \in DOMAIN rows : rows[i].Period = p}
    IN  IF hit = {} THEN NaN ELSE rows[CHOOSE i \in hit : TRUE][col]

\* Resolve with the forecast taking precedence
Resolve_forecast_first(cpi, remv) ==
    IF NotNa(remv) THEN Some(remv[1] \div 100) ELSE cpi

\* line 199: np.where(m["v_m_CPI"].notna(), m["v_m_CPI"], m["v_m_REM"] / 100)
Resolve(cpi, remv) ==
    IF NotNa(cpi) THEN cpi
    ELSE IF IsNa(remv) THEN NaN ELSE Some(Div100(remv[1]))

\* lines 197-199: the outer merge on Period, sorted, with the resolved rate
merge_outer(i_rows, r_rows) ==
    LET keys == {i_rows[i].Period : i \in DOMAIN i_rows}
                \cup {r_rows[i].Period : i \in DOMAIN r_rows}
        ks == SetToSortedSeq(keys)
    IN  [k \in DOMAIN ks |->
            LET cpi == ColumnAt(i_rows, ks[k], "v_m_CPI")
                remv == ColumnAt(r_rows, ks[k], "v_m_REM")
            IN  [Period |-> ks[k], v_m_CPI |-> cpi, v_m_REM |-> remv,
                 v_m_dec |-> Resolve(cpi, remv)]]

\* line 201: the last period with a forecast, plus 2 (NaT when there is none)
end_month(mm) ==
    LET have == {mm[i].Period : i \in {j \in DOMAIN mm : NotNa(mm[j].v_m_REM)}}
    IN  IF have = {} THEN NaN ELSE Some(Max(have) + 2)

\* RefPeriod with a lag of one month
RefPeriod_lag1(p) == p - 1

\* line 203
RefPeriod(p) == p - 2

\* lines 202-206
b_of(mm, last) ==
    LET ps == period_range(PeriodOf(2026, 1), last)
    IN  [i \in DOMAIN ps |->
            [Period |-> ps[i], ref |-> RefPeriod(ps[i]),
             v_m_dec |-> ColumnAt(mm, RefPeriod(ps[i]), "v_m_dec")]]

\* lines 208-209: the phase-1 row of 2025-12-31
AnchorRow(b25) == b25[CHOOSE i \in DOMAIN b25 : b25[i].Date = DateOf(2025, 12, 31)]

\* lines 211-213
cal_dates(b) == date_range(DateOf(2026, 1, 1), to_timestamp_M(b[Len(b)].Period))

\* lines 214-215: each day gets the rate of its month (left merge on Period)
cal_rates(b, dates) ==
    [i \in DOMAIN dates |-> ColumnAt(b, to_period(dates[i]), "v_m_dec")]

\* lines 217-219, with prod the cumulative product of the daily factors
cal_rows(anchor, dates, rates, prod) ==
    [i \in DOMAIN dates |->
        [Date |-> dates[i], v_m_dec |-> rates[i],
         lower |-> Times(anchor.lower, prod[i]),
         upper |-> Times(anchor.upper, prod[i])]]

\* pd.period_range raises on a NaT end (line 202); an empty b has no maximum
\* period and pd.date_range raises on it (line 212)
Bands2026Raises(mm) ==
    IF IsNa(end_month(mm)) THEN TRUE ELSE end_month(mm)[1] < PeriodOf(2026, 1)

\* line 221
Columns3(rows) == [i \in DOMAIN rows |-> [Date |-> rows[i].Date,
                                          lower |-> rows[i].lower,
                                          upper |-> rows[i].upper]]

-----------------------------------------------------------------------------
\* Module-level execution (lines 286-322)

\* lines 299-303
concat_sorted(b25, b26) == sort_values_Date(b25 \o b26)

\* lines 308-313
normalize_fx(f) ==
    sort_values_Date(drop_duplicates_Date(SelectSeq(f, LAMBDA r : NotNa(r.FX))))

\* lines 315-320
normalize_bands(bs) ==
    sort_values_Date(drop_duplicates_Date(
        SelectSeq(bs, LAMBDA r : NotNa(r.lower) /\ NotNa(r.upper))))

\* the rows the left join gives for corridor row r
LeftRows(r, f) ==
    LET hit == SelectSeq(f, LAMBDA q : q.Date = r.Date)
    IN  IF hit = <<>>
        THEN <<[Date |-> r.Date, lower |-> r.lower, upper |-> r.upper, FX |-> NaN]>>
        ELSE [j \in DOMAIN hit |->
                 [Date |-> r.Date, lower |-> r.lower, upper |-> r.upper,
                  FX |-> hit[j].FX]]

RECURSIVE LeftJoinRange(_, _, _, _)
LeftJoinRange(bs, f, lo, hi) ==
    IF lo > hi THEN <<>>
    ELSE IF lo = hi THEN LeftRows(bs[lo], f)
    ELSE LET mid == (lo + hi) \div 2
         IN  LeftJoinRange(bs, f, lo, mid) \o LeftJoinRange(bs, f, mid + 1, hi)

\* merge_left as an outer join: the observation-only dates are appended
merge_left_outer(bs, f) ==
    LET only == SelectSeq(f, LAMBDA q : \A i \in DOMAIN bs : bs[i].Date # q.Date)
    IN  LeftJoinRange(bs, f, 1, Len(bs))
        \o [j \in DOMAIN only |-> [Date |-> only[j].Date, lower |-> NaN,
                                   upper |-> NaN, FX |-> only[j].FX]]

\* line 322: bands.merge(fx, on="Date", how="left")
merge_left(bs, f) == LeftJoinRange(bs, f, 1, Len(bs))

-----------------------------------------------------------------------------
\* Inputs of the module-level execution

NumPeriods == 3
MaxFxRows == 3

FirstPeriod == PeriodOf(2025, 10)
PeriodsIn == FirstPeriod..(FirstPeriod + NumPeriods - 1)

\* per period: no forecast row, a row without a median, a row with a median of 2.0
RemChoices == {<<>>, <<NaN>>, <<Some(20000)>>}
\* per period: no national headline row, or one with a monthly variation of 3.0
IpcChoices == {<<>>, <<Some(30000)>>}

RemRows(f) ==
    LET ps == SetToSortedSeq({p \in PeriodsIn : f[p] # <<>>})
    IN  [i \in DOMAIN ps |-> [Date |-> MonthStart(ps[i]), v_m_REM |-> f[ps[i]][1]]]

IpcRows(g) ==
    LET ps == SetToSortedSeq({p \in PeriodsIn : g[p] # <<>>})
    IN  <<[Codigo |-> 0, Region |-> "GBA", Periodo |-> MonthStart(FirstPeriod),
           v_m_IPC |-> Some(40000)]>>
        \o [i \in DOMAIN ps |-> [Codigo |-> 0, Region |-> "Nacional",
                                 Periodo |-> MonthStart(ps[i]), v_m_IPC |-> g[ps[i]][1]]]

FxRowSet ==
    {[fecha |-> "2025-04-13", valor |-> "1100"],
     [fecha |-> "2025-04-14", valor |-> "1100"],
     [fecha |-> "2025-04-14", valor |-> "1200"],
     [fecha |-> "s/d", valor |-> "1100"],
     [fecha |-> "2025-12-31", valor |-> "s/d"]}

FxSeqs == UNION {[1..n -> FxRowSet] : n \in 0..MaxFxRows}

FxFixed == <<[fecha |-> "2025-04-14", valor |-> "1100"],
             [fecha |-> "2026-01-02", valor |-> "1200"]>>

\* forecast / price-index shapes that change only between the second and the
\* third input period
Stepped(f) == \A p \in PeriodsIn :
                 f[p] = (IF p <= FirstPeriod + 1 THEN f[FirstPeriod] ELSE f[FirstPeriod + 2])

InitFetchIdle ==
    /\ fpc = "idle" /\ attempt = 0 /\ offset = 0 /\ data = <<>> /\ reqs = <<>>
    /\ cache = NaN /\ lastCall = "none" /\ result = NaN /\ calls = 0
    /\ other = [fetcher |-> "none", source |-> "none", result |-> "none"]

InitTables ==
    /\ pc = "load"
    /\ fx = <<>> /\ rem = <<>> /\ ipc = <<>> /\ bands_2025 = <<>> /\ m = <<>>
    /\ cal = <<>> /\ bands_2026 = <<>> /\ bands = <<>> /\ df = <<>>
    /\ InitFetchIdle

\* every forecast and price-index series over the input periods
InitBands ==
    /\ \E f \in [PeriodsIn -> RemChoices] : rem_last = RemRows(f)
    /\ \E g \in [PeriodsIn -> IpcChoices] : ipc_full = IpcRows(g)
    /\ fx_data = FxFixed
    /\ InitTables

\* every fetched reference-rate series, against no forecast at all and against
\* forecasts that start at the third input period
InitMerge ==
    /\ \E f \in {h \in [PeriodsIn -> {<<>>, <<Some(20000)>>}] :
                    Stepped(h) /\ h[FirstPeriod] = <<>>} :
          rem_last = RemRows(f)
    /\ ipc_full = IpcRows([p \in PeriodsIn |-> <<>>])
    /\ fx_data \in FxSeqs
    /\ InitTables

\* lines 287-294: the fetchers have returned
Load ==
    /\ pc = "load"
    /\ fx' = a3500_frame(fx_data)
    /\ rem' = rem_last
    /\ ipc' = get_ipc_nacional_nivel_general(ipc_full)
    /\ pc' = "bands_2025"
    /\ UNCHANGED <<fx_data, ipc_full, rem_last, bands_2025, m, cal, bands_2026, bands, df>>
    /\ UNCHANGED fetchVars

\* line 296
BuildBands2025 ==
    /\ pc = "bands_2025"
    /\ bands_2025' = build_bands_2025(DateOf(2025, 4, 14), DateOf(2025, 12, 31),
                                      lower0, upper0)
    /\ pc' = "bands_2026"
    /\ UNCHANGED <<fx_data, ipc_full, rem_last, fx, rem, ipc, m, cal, bands_2026, bands, df>>
    /\ UNCHANGED fetchVars

\* line 297, build_bands_2026 returns
BuildBands2026 ==
    /\ pc = "bands_2026"
    /\ \E mm \in {merge_outer(ipc, rem_m_of(rem))} :
       /\ ~Bands2026Raises(mm)
       /\ m' = mm
       /\ \E b \in {b_of(mm, end_month(mm)[1])} :
          \E anchor \in {AnchorRow(bands_2025)} :
          \E dates \in {cal_dates(b)} :
          \E rates \in {cal_rates(b, dates)} :
          \E prod \in {cumprod(rates)} :
          \E c \in {cal_rows(anchor, dates, rates, prod)} :
             /\ cal' = c
             /\ bands_2026' = Columns3(c)
    /\ pc' = "concat"
    /\ UNCHANGED <<fx_data, ipc_full, rem_last, fx, rem, ipc, bands_2025, bands, df>>
    /\ UNCHANGED fetchVars

\* line 297, build_bands_2026 raises (ValueError of period_range / date_range);
\* nothing catches it and the script stops
BuildBands2026Raises ==
    /\ pc = "bands_2026"
    /\ \E mm \in {merge_outer(ipc, rem_m_of(rem))} :
       /\ Bands2026Raises(mm)
       /\ m' = mm
    /\ pc' = "raised"
    /\ UNCHANGED <<fx_data, ipc_full, rem_last, fx, rem, ipc, bands_2025, cal,
                   bands_2026, bands, df>>
    /\ UNCHANGED fetchVars

\* lines 299-303
Concat ==
    /\ pc = "concat"
    /\ bands' = concat_sorted(bands_2025, bands_2026)
    /\ pc' = "normalize"
    /\ UNCHANGED <<fx_data, ipc_full, rem_last, fx, rem, ipc, bands_2025, m, cal,
                   bands_2026, df>>
    /\ UNCHANGED fetchVars

\* lines 305-320
Normalize ==
    /\ pc = "normalize"
    /\ fx' = normalize_fx(fx)
    /\ bands' = normalize_bands(bands)
    /\ pc' = "merge"
    /\ UNCHANGED <<fx_data, ipc_full, rem_last, rem, ipc, bands_2025, m, cal,
                   bands_2026, df>>
    /\ UNCHANGED fetchVars

\* line 322
Merge ==
    /\ pc = "merge"
    /\ df' = merge_left(bands, fx)
    /\ pc' = "done"
    /\ UNCHANGED <<fx_data, ipc_full, rem_last, fx, rem, ipc, bands_2025, m, cal,
                   bands_2026, bands>>
    /\ UNCHANGED fetchVars

NextBands ==
    \/ Load
    \/ BuildBands2025
    \/ BuildBands2026
    \/ BuildBands2026Raises
    \/ Concat
    \/ Normalize
    \/ Merge

SpecBands == InitBands /\ [][NextBands]_vars

SpecMerge == InitMerge /\ [][NextBands]_vars

-----------------------------------------------------------------------------
\* get_a3500 (lines 29-79), one action per request and its handling

Limit == 1000

\* MaxAttempts with one attempt more
MaxAttempts_plus1 == 3 + 1

\* line 35: for _ in range(3)
MaxAttempts == 3

MaxHalfPages == 5
MaxCalls == 2

\* the total counts a response may report in metadata.resultset.count
CountSet == {k * (Limit \div 2) : k \in 0..MaxHalfPages}

\* NextOffset without the increment
NextOffset_stuck(off) == off

\* line 53: params["Offset"] += params["Limit"]
NextOffset(off) == off + Limit

\* line 67: pd.DataFrame(columns=["Date", "FX"])
EmptyFrame == [columns |-> <<"Date", "FX">>, pages |-> <<>>]

\* lines 62-79: what the call returns once the retry loop is left
ReturnValue(d) ==
    IF d = <<>> THEN EmptyFrame ELSE [columns |-> <<"Date", "FX">>, pages |-> d]

\* the rows a page at offset `off` of a collection of `count` rows holds (a
\* non-empty detalle holds at least one row)
PageRows(off, count) ==
    IF count - off >= Limit THEN Limit ELSE IF count > off THEN count - off ELSE 1

\* a request and its response (count: the reported total, 0 when none is read)
Req(got, count) == [offset |-> offset, attempt |-> attempt, got |-> got, count |-> count]

\* the function returns d's frame; st.cache_data (line 29) stores what a call
\* returns
Return(d) ==
    /\ fpc' = "idle"
    /\ lastCall' = IF d = <<>> THEN "fallback" ELSE "ok"
    /\ result' = Some(ReturnValue(d))
    /\ cache' = result'

\* a call finds no entry in the cache and runs the function body (lines 31-33)
A3500Call ==
    /\ fpc = "idle" /\ calls < MaxCalls /\ IsNa(cache)
    /\ fpc' = "requesting" /\ calls' = calls + 1
    /\ attempt' = 0 /\ offset' = 0 /\ data' = <<>> /\ reqs' = <<>>
    /\ lastCall' = "running" /\ result' = NaN
    /\ UNCHANGED <<cache, other>> /\ UNCHANGED bandVars

\* a call finds its entry in the cache: the stored value is returned and the
\* function body does not run
A3500CacheHit ==
    /\ fpc = "idle" /\ calls < MaxCalls /\ NotNa(cache)
    /\ calls' = calls + 1 /\ reqs' = <<>> /\ lastCall' = "hit" /\ result' = cache
    /\ UNCHANGED <<fpc, attempt, offset, data, cache, other>> /\ UNCHANGED bandVars

\* the time-to-live of the entry (ttl=60*60) runs out
CacheExpire ==
    /\ fpc = "idle" /\ NotNa(cache)
    /\ cache' = NaN
    /\ UNCHANGED <<fpc, attempt, offset, data, reqs, lastCall, result, calls, other>>
    /\ UNCHANGED bandVars

\* lines 38-40 raise a RequestException (connection error, timeout, HTTP error
\* status, invalid JSON); lines 59-60 swallow it and the for loop goes on with
\* params and data as they are
A3500TransportFailure ==
    /\ fpc = "requesting"
    /\ reqs' = Append(reqs, Req("failure", 0))
    /\ IF attempt + 1 < MaxAttempts
       THEN /\ attempt' = attempt + 1
            /\ UNCHANGED <<fpc, lastCall, result, cache>>
       ELSE /\ UNCHANGED attempt
            /\ Return(data)
    /\ UNCHANGED <<offset, data, calls, other>> /\ UNCHANGED bandVars

\* lines 42-44: no results in the payload
A3500NoResults ==
    /\ fpc = "requesting"
    /\ reqs' = Append(reqs, Req("no_results", 0))
    /\ Return(data)
    /\ UNCHANGED <<attempt, offset, data, calls, other>> /\ UNCHANGED bandVars

\* lines 46-48: no detalle rows in the first result
A3500NoDetalle ==
    /\ fpc = "requesting"
    /\ reqs' = Append(reqs, Req("no_detalle", 0))
    /\ Return(data)
    /\ UNCHANGED <<attempt, offset, data, calls, other>> /\ UNCHANGED bandVars

\* lines 50-57: a page with rows and a total count
A3500Page ==
    /\ fpc = "requesting"
    /\ \E count \in CountSet :
          /\ reqs' = Append(reqs, Req("page", count))
          /\ data' = Append(data, [offset |-> offset, rows |-> PageRows(offset, count)])
          /\ offset' = NextOffset(offset)
          /\ IF offset' >= count
             THEN Return(data')
             ELSE UNCHANGED <<fpc, lastCall, result, cache>>
    /\ UNCHANGED <<attempt, calls, other>> /\ UNCHANGED bandVars

\* lines 50-52: a page with rows whose payload has no metadata.resultset: the
\* rows are extended into data, then line 52 raises KeyError, which line 59
\* does not catch; the call raises and nothing is stored in the cache
A3500PageNoMetadata ==
    /\ fpc = "requesting"
    /\ reqs' = Append(reqs, Req("no_metadata", 0))
    /\ data' = Append(data, [offset |-> offset, rows |-> 1])
    /\ fpc' = "idle" /\ lastCall' = "raised" /\ result' = NaN
    /\ UNCHANGED <<attempt, offset, cache, calls, other>> /\ UNCHANGED bandVars

A3500Respond ==
    \/ A3500TransportFailure
    \/ A3500NoResults
    \/ A3500NoDetalle
    \/ A3500Page
    \/ A3500PageNoMetadata

-----------------------------------------------------------------------------
\* The other fetchers: what a call does with each outcome of its source

Fetchers == {"get_rem_last", "get_ipc_indec_full", "get_ipc_nacional_nivel_general"}
Sources == {"ok", "transport_failure", "decode_error", "header_only", "missing_fields"}

\* get_rem_last (lines 86-107) has no try: an error of pd.read_excel (line 91)
\* or a missing column (lines 94-104) leaves the function as an exception.
\* get_ipc_indec_full (lines 114-144) catches UnicodeDecodeError alone (line
\* 123) and reads again as latin1; a URLError of pd.read_csv or a missing
\* "Codigo"/"Periodo" column (lines 127-128) leaves it as an exception.
\* get_ipc_nacional_nivel_general (lines 148-170) calls get_ipc_indec_full
\* outside any try.
FetchResult(fetcher, source) ==
    CASE source \in {"ok", "header_only"} -> "returned"
      [] source = "decode_error" ->
            IF fetcher = "get_rem_last" THEN "raised" ELSE "returned"
      [] source \in {"transport_failure", "missing_fields"} -> "raised"

FetcherCall ==
    /\ \E f \in Fetchers, src \in Sources :
          other' = [fetcher |-> f, source |-> src, result |-> FetchResult(f, src)]
    /\ UNCHANGED <<fpc, attempt, offset, data, reqs, cache, lastCall, result, calls>>
    /\ UNCHANGED bandVars

InitFetch ==
    /\ InitFetchIdle
    /\ pc = "load" /\ fx_data = <<>> /\ ipc_full = <<>> /\ rem_last = <<>>
    /\ fx = <<>> /\ rem = <<>> /\ ipc = <<>> /\ bands_2025 = <<>> /\ m = <<>>
    /\ cal = <<>> /\ bands_2026 = <<>> /\ bands = <<>> /\ df = <<>>

NextFetch ==
    \/ A3500Call
    \/ A3500CacheHit
    \/ CacheExpire
    \/ A3500Respond
    \/ FetcherCall

SpecFetch == InitFetch /\ [][NextFetch]_vars

\* every request ends within its timeout (timeout=10, line 38), with a response
\* or with a failure
FairSpecFetch == SpecFetch /\ WF_vars(A3500Respond)

-----------------------------------------------------------------------------
\* Properties of the module-level execution

Phase1Dates == {d \in DateOf(2025, 4, 14)..DateOf(2025, 12, 31) : TRUE}
DatesOf(rows) == {rows[i].Date : i \in DOMAIN rows}
Projected == pc \in {"concat", "normalize", "merge", "done"}
Ended == pc \in {"raised", "done"}
EmptyInputs == pc # "load" /\ rem = <<>> /\ ipc = <<>>

\* C1: with an empty forecast series and an empty price-index series the run
\* ends without an error and the corridor is exactly phase 1, one row per day
\* 2025-04-14..2025-12-31.
C1_EmptyForecastGivesPhase1 ==
    (EmptyInputs /\ Ended) =>
        /\ pc = "done"
        /\ Len(bands) = Cardinality(Phase1Dates)
        /\ DatesOf(bands) = Phase1Dates

\* the resolved rate of 2025-11, which drives January 2026
RateOfNov2025 == ColumnAt(m, PeriodOf(2025, 11), "v_m_dec")

Terminal == Max({m[i].Period : i \in {j \in DOMAIN m : NotNa(m[j].v_m_REM)}}) + 2

\* C4: the months of phase 2 are 2026-01 through the terminal period, and the
\* rate assigned to every day of month M is the resolved rate of period M - 2
\* (missing when M - 2 has none).  The rate assignment of a month is thereby a
\* function of the resolved rate of period M - 2 alone: changing the resolved
\* rate of a period P changes the assignment of month P + 2 and of no other.
C4_LagIsTwoMonths ==
    Projected =>
        /\ {to_period(cal[i].Date) : i \in DOMAIN cal} = PeriodOf(2026, 1)..Terminal
        /\ \A i \in DOMAIN cal :
              cal[i].v_m_dec = ColumnAt(m, to_period(cal[i].Date) - 2, "v_m_dec")

C4_Witness ==
    /\ Projected
    /\ \E i, j \in DOMAIN cal :
          /\ NotNa(cal[i].v_m_dec) /\ NotNa(cal[j].v_m_dec)
          /\ cal[i].v_m_dec # cal[j].v_m_dec

\* C5: m holds one row per period of the outer join of the realized and the
\* forecast series; its resolved rate is the realized rate whenever one exists
\* (also when a forecast exists for the period) and the forecast value divided
\* by 100 only when no realized rate exists.
C5_RealizedOverForecast ==
    (pc \notin {"load", "bands_2025", "bands_2026"}) =>
        /\ {m[k].Period : k \in DOMAIN m} =
              {ipc[i].Period : i \in DOMAIN ipc}
              \cup {to_period(rem[i].Date) : i \in DOMAIN rem}
        /\ \A k \in DOMAIN m :
              /\ m[k].v_m_CPI = ColumnAt(ipc, m[k].Period, "v_m_CPI")
              /\ m[k].v_m_REM = ColumnAt(rem_m_of(rem), m[k].Period, "v_m_REM")
              /\ NotNa(m[k].v_m_CPI) => m[k].v_m_dec = m[k].v_m_CPI
              /\ (IsNa(m[k].v_m_CPI) /\ NotNa(m[k].v_m_REM)) =>
                     m[k].v_m_dec = Some(m[k].v_m_REM[1] \div 100)
              /\ (IsNa(m[k].v_m_CPI) /\ IsNa(m[k].v_m_REM)) => IsNa(m[k].v_m_dec)

C5_Witness ==
    /\ Projected
    /\ \E k \in DOMAIN m :
          /\ NotNa(m[k].v_m_CPI) /\ NotNa(m[k].v_m_REM)
          /\ m[k].v_m_CPI # Some(m[k].v_m_REM[1] \div 100)
          /\ m[k].v_m_dec = m[k].v_m_CPI
    /\ \E k \in DOMAIN m : IsNa(m[k].v_m_CPI) /\ NotNa(m[k].v_m_dec)

\* C6: the final corridor holds exactly one row, with a defined lower and upper
\* bound, for every calendar day from 2025-04-14 through the last day of the
\* terminal period, also when a phase-2 month has no resolvable driving rate.
C6_CorridorComplete ==
    (pc \in {"merge", "done"}) =>
        /\ DatesOf(bands) = DateOf(2025, 4, 14)..to_timestamp_M(Terminal)
        /\ Len(bands) = Cardinality(DatesOf(bands))
        /\ \A i \in DOMAIN bands : NotNa(bands[i].lower) /\ NotNa(bands[i].upper)

\* the dates on which the fetched reference-rate rows hold an observation
ObservedDates ==
    {to_datetime(fx_data[j].fecha)[1] :
        j \in {k \in DOMAIN fx_data : /\ NotNa(to_datetime(fx_data[k].fecha))
                                      /\ NotNa(to_numeric(fx_data[k].valor))}}

\* C7: every date of the corridor appears exactly once in the merged table, in
\* the corridor's order and with the corridor's bounds; no other date appears;
\* the observed value is missing exactly on the corridor dates that have no
\* observation.
C7_MergeKeepsCorridor ==
    (pc = "done") =>
        \E obs \in {ObservedDates} :
            /\ Len(df) = Len(bands)
            /\ \A i \in DOMAIN df :
                  /\ df[i].Date = bands[i].Date
                  /\ df[i].lower = bands[i].lower /\ df[i].upper = bands[i].upper
                  /\ IsNa(df[i].FX) <=> df[i].Date \notin obs
            /\ Cardinality(DatesOf(df)) = Len(df)

C7_Witness ==
    /\ pc = "done"
    /\ \E d \in ObservedDates : d \notin DatesOf(bands)
    /\ \E i \in DOMAIN df : NotNa(df[i].FX)
    /\ \E j, k \in DOMAIN fx_data : j # k /\ fx_data[j].fecha = fx_data[k].fecha

-----------------------------------------------------------------------------
\* Properties of the fetchers

Finished == fpc = "idle" /\ lastCall \in {"ok", "fallback", "raised"}
AllFailed == Len(reqs) > 0 /\ \A i \in DOMAIN reqs : reqs[i].got = "failure"

\* C2: for every fetcher and every outcome of its source the call returns a
\* series; no exception leaves a fetcher.
C2_NoExceptionLeavesAFetcher ==
    /\ lastCall # "raised"
    /\ other.result # "raised"

\* C8 as claimed: a transport failure makes get_a3500 retry the whole paginated
\* fetch (the next attempt pages from offset 0 again), at most 3 attempts are
\* made, and 3 failed attempts with no rows give the empty Date/FX frame.
C8_RetryRestartsPaging ==
    /\ \A i \in DOMAIN reqs : reqs[i].attempt < 3
    /\ \A i \in 2..Len(reqs) :
          reqs[i - 1].got = "failure" => reqs[i].offset = 0
    /\ (Finished /\ data = <<>> /\ lastCall # "raised") =>
          result = Some([columns |-> <<"Date", "FX">>, pages |-> <<>>])

\* C8 amended: a transport failure ends the running attempt and the next one
\* repeats the request at the offset that failed, with the rows accumulated so
\* far kept (paging is resumed, not restarted at offset 0); at most 3 attempts
\* are made in total; a transport failure never leaves the call as an
\* exception; and a call that ends with zero accumulated rows, such as one
\* whose 3 attempts all failed, returns the empty frame with columns Date, FX.
C8_RetryResumesPaging ==
    /\ \A i \in DOMAIN reqs : reqs[i].attempt \in 0..2
    /\ Cardinality({i \in DOMAIN reqs : reqs[i].got = "failure"}) <= 3
    /\ \A i \in 2..Len(reqs) :
          IF reqs[i - 1].got = "failure"
          THEN /\ reqs[i].attempt = reqs[i - 1].attempt + 1
               /\ reqs[i].offset = reqs[i - 1].offset
          ELSE reqs[i].attempt = reqs[i - 1].attempt
    /\ (Finished /\ lastCall = "raised") => reqs[Len(reqs)].got = "no_metadata"
    /\ (Finished /\ lastCall # "raised") =>
          /\ lastCall = "fallback" <=> data = <<>>
          /\ data = <<>> => result = Some([columns |-> <<"Date", "FX">>, pages |-> <<>>])
          /\ data # <<>> => result = Some([columns |-> <<"Date", "FX">>, pages |-> data])
    /\ (fpc = "idle" /\ AllFailed) =>
          /\ Len(reqs) = 3 /\ lastCall = "fallback"
          /\ result = Some([columns |-> <<"Date", "FX">>, pages |-> <<>>])

C8_Witness ==
    /\ fpc = "idle" /\ AllFailed /\ Len(reqs) = 3 /\ lastCall = "fallback"

\* the largest total count a response reports
MaxCount == Max(CountSet)

PagingInv ==
    /\ reqs # <<>> => reqs[1].offset = 0
    /\ \A i \in DOMAIN reqs : reqs[i].offset % 1000 = 0
    /\ \A i \in 2..Len(reqs) :
          /\ reqs[i].attempt = reqs[i - 1].attempt =>
                /\ reqs[i].offset = reqs[i - 1].offset + 1000
                /\ reqs[i - 1].got = "page"
                /\ reqs[i].offset < reqs[i - 1].count
          /\ reqs[i - 1].got \notin {"no_results", "no_detalle", "no_metadata"}
          /\ reqs[i].offset >= reqs[i - 1].offset
    /\ Len(reqs) <= (MaxCount \div 1000) + 1 + 3
    /\ (Finished /\ lastCall = "raised") => reqs[Len(reqs)].got = "no_metadata"

C10_NoEntryAfterFailedCall ==
    (fpc = "idle" /\ AllFailed /\ lastCall = "fallback") => IsNa(cache)

====
